---- MODULE Spec2Model ----
(***************************************************************************)
(* Model of MUSICAI2/get_top_tracks.py: main() iterates the genres of the  *)
(* catalog, download_genre_tracks() iterates the search terms of a genre,  *)
(* pages through YouTubeAPI.search() and downloads every page through a    *)
(* ThreadPoolExecutor of MAX_WORKERS threads.                              *)
(*                                                                         *)
(* The main thread's position is pc; the worker threads of the page's pool *)
(* act through StartFetch and FinishFetch, interleaved with the main       *)
(* thread's steps.                                                         *)
(*                                                                         *)
(* Spec is the whole run over a catalog of genres, against a source that   *)
(* yields pages of up to MaxRunPage entries.  TermSpec is the processing   *)
(* of one term against a source that yields pages of up to MaxPage         *)
(* entries, more than the pool has threads.  LiveSpec is the run with its  *)
(* threads scheduled fairly, PagingSpec adds a term against a source that  *)
(* yields full pages, QuotaSpec records what each genre has downloaded.    *)
(*                                                                         *)
(* ApiSpec follows one call of a method of MUSICAI2/youtube.py step by     *)
(* step: search, download, or clean_filename on titles given as sequences  *)
(* of characters.                                                          *)
(***************************************************************************)
EXTENDS Integers, Sequences, FiniteSets, TLC

\* Program constants (get_top_tracks.py:15-16).
MAX_WORKERS == 4
BATCH_SIZE == 50
\* The length clean_filename cuts a name to (youtube.py:53-54).
MaxFilenameLen == 200

\* Bounds of the model.
MaxCollections == 2   \* genres in the catalog
MaxTerms == 3         \* len(config["search_terms"]) ranges over 0..MaxTerms
MaxRunPage == 2       \* most entries the source yields for one search call, in Spec
MaxPage == 5          \* the same, in TermSpec
MaxBatches == 2       \* the source holds nothing at offset >= MaxBatches * BATCH_SIZE
MaxHead == 1          \* characters of a title before its run of letters
MaxTail == 2          \* characters of a title after its run of letters
MaxLimit == 2         \* limit of a search call followed step by step
MaxOffset == 1        \* offset of such a call

\* The values config["count"] is drawn from.
Counts == {0, 2, 5, 100}

VARIABLES
    pc,               \* position of the main thread
    error,            \* the exception that ended the run, "none" if none did
    genresLeft,       \* entries of genres.items() not yet iterated
    termsLeft,        \* entries of search_terms not yet iterated
    count,            \* config["count"] of the current genre
    tracks_per_term,  \* local of download_genre_tracks
    downloaded,       \* local of download_genre_tracks
    batch,            \* local of download_genre_tracks
    results,          \* len(results): the page the last search returned
    futures,          \* the futures list: status of each submitted download
    collected,        \* futures the loop of lines 113-115 has gone through
    attempts,         \* per future, how many times youtube.download was started
    search_terms,     \* len(search_terms) of the current genre
    searchCalls,      \* youtube.search calls made for the current term
    pageCap,          \* most entries the source yields for one search call
    lastSearch,       \* the last of them: its limit, its offset, the size of
                      \* its result, downloaded when it was made, and the sum
                      \* of the limits of the term's earlier calls
    fetchedBefore,    \* history: the files the earlier terms of the current
                      \* genre saved to its directory, recorded by QuotaSpec
    ytOp,             \* the YouTubeAPI method a call runs, "none" outside one
    ytPc,             \* position of that call
    ytArgs,           \* limit and offset of a search call
    ytRaised,         \* what the call's try block raised, "none" if nothing
    ytInfo,           \* what extract_info returned
    title,            \* info['title'], or the argument of clean_filename
    filename,         \* what clean_filename returned
    recleaned,        \* what clean_filename returned for filename
    ytResult          \* what the call returned

\* The variables of a run of main.
runVars == <<pc, error, genresLeft, termsLeft, count, tracks_per_term,
             downloaded, batch, results, futures, collected, attempts,
             search_terms, searchCalls, pageCap, lastSearch, fetchedBefore>>

\* The variables of one call of a YouTubeAPI method.
ytVars == <<ytOp, ytPc, ytArgs, ytRaised, ytInfo, title, filename, recleaned,
            ytResult>>

vars == <<runVars, ytVars>>

Min(a, b) == IF a < b THEN a ELSE b

\* ------------------------------------------------------------------------
\* Pure helpers

\* get_top_tracks.py:74   count // len(search_terms)
QuotaCeil(c, n) == (c + n - 1) \div n
QuotaPerTerm(c, n) == c \div n

\* get_top_tracks.py:85-86   min(BATCH_SIZE, remaining)
FullBatch(remaining) == BATCH_SIZE
CurrentBatch(remaining) == Min(BATCH_SIZE, remaining)

\* get_top_tracks.py:94   offset=batch * BATCH_SIZE
OffsetStuck(b) == 0
Offset(b) == b * BATCH_SIZE

\* youtube.py:79-103   the sizes of the list search(limit, offset) can return:
\* entries[offset:] of at most limit + offset entries, None entries dropped;
\* youtube.py:105-107 turns any Exception into the empty list.
SearchSizes(limit, offset, cap) ==
    IF offset >= MaxBatches * BATCH_SIZE THEN {0}
    ELSE 0 .. Min(limit, cap)

\* get_top_tracks.py:97-99   an empty page breaks out of the while loop
PcAfterSearchNoBreak(n) == IF n = 0 THEN "while" ELSE "submit"
PcAfterSearch(n) == IF n = 0 THEN "terms" ELSE "submit"

\* youtube.py:148-155   download returns the path, or None on any failure
OutcomeRetry(ok) == IF ok THEN "ok" ELSE "queued"
Outcome(ok) == IF ok THEN "ok" ELSE "fail"

\* get_top_tracks.py:114   if future.result():
CountsAny(status) == status \in {"ok", "fail"}
Counted(status) == status = "ok"

\* Future.result() and the executor's shutdown(wait=True) both block until
\* the future has a result.
ResolvedNoWait(status) == TRUE
Resolved(status) == status \in {"ok", "fail"}

\* ThreadPoolExecutor(max_workers=MAX_WORKERS): submit starts a thread while
\* fewer than max_workers exist, so after s submissions at most
\* min(s, MAX_WORKERS) threads exist.
ThreadPerTask(s) == s
NumThreads(s) == Min(s, MAX_WORKERS)

\* get_top_tracks.py:83   while downloaded < tracks_per_term:
LoopTestInclusive(d, q) == d <= q
LoopTest(d, q) == d < q

NoSearch == [limit |-> 0, offset |-> 0, size |-> 0, before |-> 0, earlier |-> 0]

Running == {i \in 1..Len(futures) : futures[i] = "running"}
Queued == {i \in 1..Len(futures) : futures[i] = "queued"}
Succeeded == {i \in 1..Len(futures) : futures[i] = "ok"}

\* ------------------------------------------------------------------------
NoArgs == [limit |-> 0, offset |-> 0]

\* No call of a YouTubeAPI method is followed step by step.
ApiIdle ==
    /\ ytOp = "none"
    /\ ytPc = "idle"
    /\ ytArgs = NoArgs
    /\ ytRaised = "none"
    /\ ytInfo = "none"
    /\ title = <<>>
    /\ filename = <<>>
    /\ recleaned = <<>>
    /\ ytResult = "none"

RunInit ==
    /\ pc = "genres"
    /\ error = "none"
    /\ genresLeft \in 0..MaxCollections
    /\ termsLeft = 0
    /\ count = 0
    /\ tracks_per_term = 0
    /\ downloaded = 0
    /\ batch = 0
    /\ results = 0
    /\ futures = <<>>
    /\ collected = 0
    /\ attempts = <<>>
    /\ search_terms = 0
    /\ searchCalls = 0
    /\ lastSearch = NoSearch
    /\ fetchedBefore = 0
    /\ pageCap = MaxRunPage

Init == RunInit /\ ApiIdle

\* main, get_top_tracks.py:132-138, and the head of download_genre_tracks,
\* lines 73-76.  genres.items() yields the next entry; its content is drawn
\* here.  An empty search_terms list raises ZeroDivisionError at line 74,
\* which nothing catches.  The call starts a fresh frame of locals.
NextGenre ==
    /\ pc = "genres"
    /\ genresLeft > 0
    /\ \E n \in 0..MaxTerms, c \in Counts :
        /\ genresLeft' = genresLeft - 1
        /\ count' = c
        /\ search_terms' = n
        /\ IF n = 0
           THEN /\ pc' = "aborted"
                /\ error' = "ZeroDivisionError"
                /\ tracks_per_term' = 0
                /\ termsLeft' = 0
           ELSE /\ pc' = "terms"
                /\ error' = error
                /\ tracks_per_term' = QuotaPerTerm(c, n)
                /\ termsLeft' = n
    /\ downloaded' = 0
    /\ batch' = 0
    /\ results' = 0
    /\ futures' = <<>>
    /\ collected' = 0
    /\ attempts' = <<>>
    /\ searchCalls' = 0
    /\ lastSearch' = NoSearch
    /\ pageCap' = pageCap
    /\ UNCHANGED ytVars

\* main, get_top_tracks.py:132: the for loop over genres is exhausted.
MainDone ==
    /\ pc = "genres"
    /\ genresLeft = 0
    /\ pc' = "done"
    /\ UNCHANGED <<error, genresLeft, termsLeft, count, tracks_per_term,
                   downloaded, batch, results, futures, collected, attempts,
                   search_terms, searchCalls, pageCap, lastSearch,
                   ytVars>>

\* get_top_tracks.py:78-81
NextTerm ==
    /\ pc = "terms"
    /\ termsLeft > 0
    /\ termsLeft' = termsLeft - 1
    /\ downloaded' = 0
    /\ batch' = 0
    /\ results' = 0
    /\ futures' = <<>>
    /\ collected' = 0
    /\ attempts' = <<>>
    /\ searchCalls' = 0
    /\ lastSearch' = NoSearch
    /\ pageCap' = pageCap
    /\ UNCHANGED ytVars
    /\ pc' = "while"
    /\ UNCHANGED <<error, genresLeft, count, tracks_per_term, search_terms>>

\* get_top_tracks.py:78: the for loop over search_terms is exhausted and
\* download_genre_tracks returns to main.
GenreDone ==
    /\ pc = "terms"
    /\ termsLeft = 0
    /\ pc' = "genres"
    /\ UNCHANGED <<error, genresLeft, termsLeft, count, tracks_per_term,
                   downloaded, batch, results, futures, collected, attempts,
                   search_terms, searchCalls, pageCap, lastSearch,
                   ytVars>>

\* get_top_tracks.py:83: the while condition is false.
QuotaMet ==
    /\ pc = "while"
    /\ ~LoopTest(downloaded, tracks_per_term)
    /\ pc' = "terms"
    /\ UNCHANGED <<error, genresLeft, termsLeft, count, tracks_per_term,
                   downloaded, batch, results, futures, collected, attempts,
                   search_terms, searchCalls, pageCap, lastSearch,
                   ytVars>>

\* get_top_tracks.py:83-99: one search call and the test of its result.
Search ==
    /\ pc = "while"
    /\ LoopTest(downloaded, tracks_per_term)
    /\ LET remaining == tracks_per_term - downloaded
           current_batch == CurrentBatch(remaining)
           offset == Offset(batch)
       IN \E n \in SearchSizes(current_batch, offset, pageCap) :
            /\ lastSearch' = [limit |-> current_batch, offset |-> offset,
                              size |-> n, before |-> downloaded,
                              earlier |-> IF searchCalls = 0 THEN 0
                                          ELSE lastSearch.earlier + lastSearch.limit]
            /\ results' = n
            /\ pc' = PcAfterSearch(n)
    /\ searchCalls' = searchCalls + 1
    /\ pageCap' = pageCap
    /\ UNCHANGED ytVars
    /\ futures' = <<>>
    /\ collected' = 0
    /\ attempts' = <<>>
    /\ UNCHANGED <<error, genresLeft, termsLeft, count, tracks_per_term,
                   downloaded, batch, search_terms>>

\* youtube.py:105 catches Exception only: a BaseException raised under the
\* search call (KeyboardInterrupt, SystemExit) leaves youtube.search, and
\* neither download_genre_tracks nor main has a handler.
SearchRaises ==
    /\ pc = "while"
    /\ LoopTest(downloaded, tracks_per_term)
    /\ pc' = "aborted"
    /\ error' = "SearchRaised"
    /\ UNCHANGED <<genresLeft, termsLeft, count, tracks_per_term, downloaded,
                   batch, results, futures, collected, attempts,
                   search_terms, searchCalls, pageCap, lastSearch,
                   ytVars>>

\* get_top_tracks.py:104-110: executor.submit for the next video of the page.
Submit ==
    /\ pc = "submit"
    /\ Len(futures) < results
    /\ futures' = Append(futures, "queued")
    /\ attempts' = Append(attempts, 0)
    /\ pc' = IF Len(futures) + 1 = results THEN "collect" ELSE "submit"
    /\ UNCHANGED <<error, genresLeft, termsLeft, count, tracks_per_term,
                   downloaded, batch, results, collected,
                   search_terms, searchCalls, pageCap, lastSearch,
                   ytVars>>

\* A pool thread takes the oldest queued work item (get_top_tracks.py:102,
\* 105-109) and enters youtube.download.
StartFetch ==
    /\ Queued # {}
    /\ Cardinality(Running) < NumThreads(Len(futures))
    /\ LET i == CHOOSE j \in Queued : \A k \in Queued : j <= k
       IN /\ futures' = [futures EXCEPT ![i] = "running"]
          /\ attempts' = [attempts EXCEPT ![i] = @ + 1]
    /\ UNCHANGED <<pc, error, genresLeft, termsLeft, count, tracks_per_term,
                   downloaded, batch, results, collected,
                   search_terms, searchCalls, pageCap, lastSearch,
                   ytVars>>

\* youtube.download returns (youtube.py:119-155) and the future is resolved.
FinishFetch ==
    /\ \E i \in Running, ok \in BOOLEAN :
        futures' = [futures EXCEPT ![i] = Outcome(ok)]
    /\ UNCHANGED <<pc, error, genresLeft, termsLeft, count, tracks_per_term,
                   downloaded, batch, results, collected, attempts,
                   search_terms, searchCalls, pageCap, lastSearch,
                   ytVars>>

\* get_top_tracks.py:113-115: future.result() of the next future, counted
\* when truthy.
Collect ==
    /\ pc = "collect"
    /\ collected < Len(futures)
    /\ Resolved(futures[collected + 1])
    /\ downloaded' = IF Counted(futures[collected + 1])
                     THEN downloaded + 1 ELSE downloaded
    /\ collected' = collected + 1
    /\ pc' = IF collected + 1 = Len(futures) THEN "shutdown" ELSE "collect"
    /\ UNCHANGED <<error, genresLeft, termsLeft, count, tracks_per_term,
                   batch, results, futures, attempts,
                   search_terms, searchCalls, pageCap, lastSearch,
                   ytVars>>

\* get_top_tracks.py:117-118, 83: after a page the loop goes back to its
\* test, whatever the page downloaded.
PcAfterPoolIfProgress ==
    IF downloaded > lastSearch.before THEN "while" ELSE "terms"
PcAfterPool == "while"

\* get_top_tracks.py:102, 117: leaving the with block joins the pool's
\* threads (shutdown(wait=True)), then batch += 1.
ExitPool ==
    /\ pc = "shutdown"
    /\ \A i \in 1..Len(futures) : Resolved(futures[i])
    /\ batch' = batch + 1
    /\ pc' = PcAfterPool
    /\ UNCHANGED <<error, genresLeft, termsLeft, count, tracks_per_term,
                   downloaded, results, futures, collected, attempts,
                   search_terms, searchCalls, pageCap, lastSearch,
                   ytVars>>

\* A step that saves no file to account for: outside QuotaSpec the history
\* variable is not recorded.
Untallied == UNCHANGED fetchedBefore

Next ==
    \/ NextGenre /\ Untallied
    \/ MainDone /\ Untallied
    \/ NextTerm /\ Untallied
    \/ GenreDone /\ Untallied
    \/ QuotaMet /\ Untallied
    \/ Search /\ Untallied
    \/ SearchRaises /\ Untallied
    \/ Submit /\ Untallied
    \/ StartFetch /\ Untallied
    \/ FinishFetch /\ Untallied
    \/ Collect /\ Untallied
    \/ ExitPool /\ Untallied

Spec == Init /\ [][Next]_vars

\* One term of a one-term genre, from the state NextTerm leaves
\* (get_top_tracks.py:80-83), against a source that yields pages larger than
\* the pool.
TermInit ==
    /\ pc = "while"
    /\ error = "none"
    /\ genresLeft = 0
    /\ termsLeft = 0
    /\ search_terms = 1
    /\ count \in Counts
    /\ tracks_per_term = QuotaPerTerm(count, 1)
    /\ downloaded = 0
    /\ batch = 0
    /\ results = 0
    /\ futures = <<>>
    /\ collected = 0
    /\ attempts = <<>>
    /\ searchCalls = 0
    /\ lastSearch = NoSearch
    /\ fetchedBefore = 0
    /\ pageCap = MaxPage
    /\ ApiIdle

TermNext ==
    \/ MainDone /\ Untallied
    \/ GenreDone /\ Untallied
    \/ QuotaMet /\ Untallied
    \/ Search /\ Untallied
    \/ SearchRaises /\ Untallied
    \/ Submit /\ Untallied
    \/ StartFetch /\ Untallied
    \/ FinishFetch /\ Untallied
    \/ Collect /\ Untallied
    \/ ExitPool /\ Untallied

TermSpec == TermInit /\ [][TermNext]_vars

\* The steps of the main thread when every youtube.search call returns.
MainStep ==
    \/ NextGenre /\ Untallied
    \/ MainDone /\ Untallied
    \/ NextTerm /\ Untallied
    \/ GenreDone /\ Untallied
    \/ QuotaMet /\ Untallied
    \/ Search /\ Untallied
    \/ Submit /\ Untallied
    \/ Collect /\ Untallied
    \/ ExitPool /\ Untallied

LiveNext ==
    \/ MainStep
    \/ StartFetch /\ Untallied
    \/ FinishFetch /\ Untallied

\* The whole run when every search and download call returns: the main
\* thread and the pool's threads are scheduled whenever they can run, and a
\* download that has started ends.
LiveSpec ==
    /\ Init
    /\ [][LiveNext]_vars
    /\ WF_vars(MainStep)
    /\ WF_vars(StartFetch /\ Untallied)
    /\ WF_vars(FinishFetch /\ Untallied)

\* The second term of a genre of 100 tracks and 2 terms, from the state
\* NextTerm leaves, against a source that yields pages of BATCH_SIZE
\* entries.
FullPageInit ==
    /\ pc = "while"
    /\ error = "none"
    /\ genresLeft = 0
    /\ termsLeft = 0
    /\ search_terms = 2
    /\ count = 100
    /\ tracks_per_term = QuotaPerTerm(count, search_terms)
    /\ downloaded = 0
    /\ batch = 0
    /\ results = 0
    /\ futures = <<>>
    /\ collected = 0
    /\ attempts = <<>>
    /\ searchCalls = 0
    /\ lastSearch = NoSearch
    /\ fetchedBefore = 0
    /\ pageCap = BATCH_SIZE
    /\ ApiIdle

\* One schedule of such a term: the source returns as many entries as are
\* asked for, downloads end in the order they started, and those that fail
\* are the first ten of the first page.
FullPageSchedule ==
    pageCap = BATCH_SIZE =>
        /\ searchCalls' # searchCalls => lastSearch'.size = lastSearch'.limit
        /\ \A i \in 1..Len(futures) :
              (futures[i] = "running" /\ futures'[i] # "running") =>
                  /\ \A j \in Running : i <= j
                  /\ futures'[i] = IF searchCalls = 1 /\ i <= 10
                                   THEN "fail" ELSE "ok"

PagingNext ==
    \/ MainDone /\ Untallied
    \/ GenreDone /\ Untallied
    \/ QuotaMet /\ Untallied
    \/ Search /\ FullPageSchedule /\ Untallied
    \/ SearchRaises /\ Untallied
    \/ Submit /\ Untallied
    \/ StartFetch /\ Untallied
    \/ FinishFetch /\ FullPageSchedule /\ Untallied
    \/ Collect /\ Untallied
    \/ ExitPool /\ Untallied

\* The terms of TermSpec, and the term of FullPageInit under
\* FullPageSchedule.
PagingSpec == (TermInit \/ FullPageInit) /\ [][PagingNext]_vars

\* The run with the genre's directory accounted for: a new genre starts with
\* an empty directory (get_top_tracks.py:70-71), and what a term saved stays
\* in it when the next term starts (get_top_tracks.py:78-81).
QuotaNext ==
    \/ NextGenre /\ fetchedBefore' = 0
    \/ MainDone /\ Untallied
    \/ NextTerm /\ fetchedBefore' = fetchedBefore + downloaded
    \/ GenreDone /\ Untallied
    \/ QuotaMet /\ Untallied
    \/ Search /\ Untallied
    \/ SearchRaises /\ Untallied
    \/ Submit /\ Untallied
    \/ StartFetch /\ Untallied
    \/ FinishFetch /\ Untallied
    \/ Collect /\ Untallied
    \/ ExitPool /\ Untallied

QuotaSpec == Init /\ [][QuotaNext]_vars

\* ------------------------------------------------------------------------
\* MUSICAI2/youtube.py: one call of a YouTubeAPI method, step by step.
\* Strings are sequences of one-character strings.

\* The characters titles are made of here: a letter, a space, the
\* ampersand and one character of the class clean_filename removes.
Alphabet == {"a", " ", "&", "/"}

Strings(n) == UNION {[1..k -> Alphabet] : k \in 0..n}

Fill(k) == [i \in 1..k |-> "a"]

\* A title is a run of letters, empty or about as long as the cut, with up
\* to MaxHead characters before it and up to MaxTail after it.
Pads == {0} \cup ((MaxFilenameLen - MaxTail)..MaxFilenameLen)

Titles ==
    {h \o Fill(k) \o t : h \in Strings(MaxHead), k \in Pads,
                         t \in Strings(MaxTail)}

\* youtube.py:48, the class [<>:"/\\|?*].
InvalidChars == {"<", ">", ":", "\"", "/", "\\", "|", "?", "*"}

\* Characters str.strip() removes (youtube.py:51), those TLA+ can write.
Whitespace == {" ", "\t", "\n", "\r", "\f"}

IsValidChar(c) == c \notin InvalidChars

\* youtube.py:48: re.sub(r'[<>:"/\\|?*]', '', filename).
RemoveInvalid(s) == SelectSeq(s, IsValidChar)

\* youtube.py:50: filename.replace('&', 'and'), for the characters of s
\* from position lo to position hi.
RECURSIVE ReplaceAmp(_, _, _)
ReplaceAmp(s, lo, hi) ==
    IF lo > hi THEN <<>>
    ELSE IF lo = hi
         THEN (IF s[lo] = "&" THEN <<"a", "n", "d">> ELSE <<s[lo]>>)
         ELSE LET mid == (lo + hi) \div 2
              IN  ReplaceAmp(s, lo, mid) \o ReplaceAmp(s, mid + 1, hi)

\* The first and the last position of s that str.strip() keeps.
FirstKept(s) ==
    CHOOSE i \in 1..Len(s) :
        s[i] \notin Whitespace /\ \A j \in 1..(i - 1) : s[j] \in Whitespace

LastKept(s) ==
    CHOOSE i \in 1..Len(s) :
        s[i] \notin Whitespace
            /\ \A j \in (i + 1)..Len(s) : s[j] \in Whitespace

\* youtube.py:51: filename.strip().
Strip(s) ==
    IF \A i \in 1..Len(s) : s[i] \in Whitespace THEN <<>>
    ELSE SubSeq(s, FirstKept(s), LastKept(s))

\* youtube.py:53-54: if len(filename) > 200: filename = filename[:200].
Truncate(s) ==
    IF Len(s) > MaxFilenameLen THEN SubSeq(s, 1, MaxFilenameLen) ELSE s

\* youtube.py:38-55.
ReplaceAll(s) == ReplaceAmp(s, 1, Len(s))

CleanCapFirst(fn) == Strip(ReplaceAll(RemoveInvalid(Truncate(fn))))
clean_filename(fn) == Truncate(Strip(ReplaceAll(RemoveInvalid(fn))))

\* youtube.py:105, 153: `except Exception` catches the exceptions derived
\* from Exception; KeyboardInterrupt, SystemExit and GeneratorExit derive
\* from BaseException only.
Caught(kind) == kind = "Exception"

\* What extract_info can return for a search with playlistend = n: nothing,
\* or up to n entries, each a dict or None.
SearchInfos(n) ==
    {[found |-> FALSE, entries |-> <<>>]}
        \cup {[found |-> TRUE, entries |-> es] :
                 es \in UNION {[1..k -> {"entry", "None"}] : k \in 0..n}}

IsEntry(e) == e = "entry"

\* A call of search(query, limit, offset), of download(url, output_dir) for
\* a video of some title, or of clean_filename(title), is about to start.
ApiInit ==
    /\ RunInit
    /\ ytOp \in {"search", "download", "clean_filename"}
    /\ ytPc = "try"
    /\ ytArgs \in IF ytOp = "search"
                  THEN [limit : 0..MaxLimit, offset : 0..MaxOffset]
                  ELSE {NoArgs}
    /\ ytRaised = "none"
    /\ ytInfo = "none"
    /\ title \in IF ytOp = "search" THEN {<<>>} ELSE Titles
    /\ filename = <<>>
    /\ recleaned = <<>>
    /\ ytResult = "none"

\* youtube.py:82-87: extract_info returns for a search.
SearchExtract ==
    /\ ytOp = "search"
    /\ ytPc = "try"
    /\ ytInfo' \in SearchInfos(ytArgs.limit + ytArgs.offset)
    /\ ytPc' = "extracted"
    /\ UNCHANGED <<runVars, ytOp, ytArgs, ytRaised, title, filename,
                   recleaned, ytResult>>

\* youtube.py:89-103: no result gives [], else the entries from offset on
\* that are not None.
SearchReturn ==
    /\ ytOp = "search"
    /\ ytPc = "extracted"
    /\ ytResult' = IF ~ytInfo.found THEN <<>>
                   ELSE SelectSeq(SubSeq(ytInfo.entries, ytArgs.offset + 1,
                                         Len(ytInfo.entries)), IsEntry)
    /\ ytPc' = "returned"
    /\ UNCHANGED <<runVars, ytOp, ytArgs, ytRaised, ytInfo, title, filename,
                   recleaned>>

\* youtube.py:136-137: extract_info returns for a download.
DownloadExtract ==
    /\ ytOp = "download"
    /\ ytPc = "try"
    /\ ytInfo' \in {"None", "info"}
    /\ ytPc' = "extracted"
    /\ UNCHANGED <<runVars, ytOp, ytArgs, ytRaised, title, filename,
                   recleaned, ytResult>>

\* youtube.py:139, 151: no info, the call returns None.
DownloadNoInfo ==
    /\ ytOp = "download"
    /\ ytPc = "extracted"
    /\ ytInfo = "None"
    /\ ytResult' = "None"
    /\ ytPc' = "returned"
    /\ UNCHANGED <<runVars, ytOp, ytArgs, ytRaised, ytInfo, title, filename,
                   recleaned>>

\* youtube.py:139-145: the file's name is made from the title.
DownloadClean ==
    /\ ytOp = "download"
    /\ ytPc = "extracted"
    /\ ytInfo = "info"
    /\ filename' = clean_filename(title)
    /\ ytPc' = "cleaned"
    /\ UNCHANGED <<runVars, ytOp, ytArgs, ytRaised, ytInfo, title, recleaned,
                   ytResult>>

\* youtube.py:148-151: the path if the file exists, else None.
DownloadReturn ==
    /\ ytOp = "download"
    /\ ytPc = "cleaned"
    /\ \E exists \in BOOLEAN :
          ytResult' = IF exists THEN "path" ELSE "None"
    /\ ytPc' = "returned"
    /\ UNCHANGED <<runVars, ytOp, ytArgs, ytRaised, ytInfo, title, filename,
                   recleaned>>

\* youtube.py:73-103, 119-151: a statement of the try block raises.
Raises ==
    /\ ytOp \in {"search", "download"}
    /\ ytPc \in {"try", "extracted", "cleaned"}
    /\ ytRaised' \in {"Exception", "BaseException"}
    /\ ytPc' = "raised"
    /\ UNCHANGED <<runVars, ytOp, ytArgs, ytInfo, title, filename, recleaned,
                   ytResult>>

\* youtube.py:105-107, 153-155: the handler returns [], or None.
Handler ==
    /\ ytPc = "raised"
    /\ Caught(ytRaised)
    /\ ytResult' = IF ytOp = "search" THEN <<>> ELSE "None"
    /\ ytPc' = "returned"
    /\ UNCHANGED <<runVars, ytOp, ytArgs, ytRaised, ytInfo, title, filename,
                   recleaned>>

\* youtube.py:105, 153: no handler matches, the exception leaves the method.
Escape ==
    /\ ytPc = "raised"
    /\ ~Caught(ytRaised)
    /\ ytPc' = "escaped"
    /\ UNCHANGED <<runVars, ytOp, ytArgs, ytRaised, ytInfo, title, filename,
                   recleaned, ytResult>>

\* youtube.py:38-55: clean_filename(title).
Clean ==
    /\ ytOp = "clean_filename"
    /\ ytPc = "try"
    /\ filename' = clean_filename(title)
    /\ ytPc' = "returned"
    /\ UNCHANGED <<runVars, ytOp, ytArgs, ytRaised, ytInfo, title, recleaned,
                   ytResult>>

\* youtube.py:38-55: clean_filename applied to the name it returned.
CleanAgain ==
    /\ ytOp = "clean_filename"
    /\ ytPc = "returned"
    /\ recleaned' = clean_filename(filename)
    /\ ytPc' = "recleaned"
    /\ UNCHANGED <<runVars, ytOp, ytArgs, ytRaised, ytInfo, title, filename,
                   ytResult>>

ApiNext ==
    \/ SearchExtract
    \/ SearchReturn
    \/ DownloadExtract
    \/ DownloadNoInfo
    \/ DownloadClean
    \/ DownloadReturn
    \/ Raises
    \/ Handler
    \/ Escape
    \/ Clean
    \/ CleanAgain

ApiSpec == ApiInit /\ [][ApiNext]_vars

TypeOK ==
    /\ pc \in {"genres", "terms", "while", "submit", "collect", "shutdown",
               "done", "aborted"}
    /\ error \in {"none", "ZeroDivisionError", "SearchRaised"}
    /\ genresLeft \in 0..MaxCollections
    /\ termsLeft \in 0..MaxTerms
    /\ collected \in 0..Len(futures)
    /\ Len(futures) <= results
    /\ Len(attempts) = Len(futures)
    /\ pageCap \in {MaxRunPage, MaxPage, BATCH_SIZE}

\* ------------------------------------------------------------------------
\* Properties

\* The last search of the current term returned an empty page.
EmptyPage == searchCalls > 0 /\ lastSearch.size = 0

\* The main thread is outside the with block of lines 102-115.
OutsidePool == pc \notin {"submit", "collect", "shutdown"}

\* C1: while a term is processed, and when it ends, downloaded never
\* exceeds tracks_per_term, whatever fetches succeed or fail.
C1_FetchedWithinQuota == downloaded <= tracks_per_term

\* A term that ended with its quota met exactly, on its second page.
C1_Witness ==
    /\ pc = "terms"
    /\ searchCalls = 2
    /\ tracks_per_term > 1
    /\ downloaded = tracks_per_term

\* C2: the downloads running at the same instant never exceed MAX_WORKERS
\* nor the number of candidates of the page.
C2_ConcurrencyBound ==
    /\ Cardinality(Running) <= MAX_WORKERS
    /\ Cardinality(Running) <= results

\* MAX_WORKERS downloads run while another candidate of the page waits.
C2_Witness ==
    /\ Cardinality(Running) = MAX_WORKERS
    /\ Queued # {}

\* C3: an error raised while a term is processed does not end the run: the
\* run never stops on it with terms or genres still to process.
C3_TermErrorDoesNotAbortRun ==
    (error = "SearchRaised" /\ pc \in {"done", "aborted"})
        => (termsLeft = 0 /\ genresLeft = 0)

\* C4: the offset of every search call is the sum of the limits of the
\* term's earlier search calls.
C4_OffsetIsSumOfRequests ==
    searchCalls > 0 => lastSearch.offset = lastSearch.earlier

\* C5: once a search of a term has returned an empty page, the term is over:
\* nothing of that page is submitted, downloaded keeps the value it had (0
\* after an empty first page), and while the term is the current one no
\* other search call is made.
C5_EmptyPageEndsTerm ==
    /\ [](EmptyPage =>
            /\ pc \in {"terms", "genres", "done"}
            /\ futures = <<>>
            /\ downloaded = lastSearch.before
            /\ (searchCalls = 1 => downloaded = 0))
    /\ [][(EmptyPage /\ termsLeft' = termsLeft /\ genresLeft' = genresLeft)
            => (searchCalls' = searchCalls /\ futures' = futures
                /\ downloaded' = downloaded)]_vars

\* A term that ended under quota on an empty second page.
C5_Witness ==
    /\ EmptyPage
    /\ searchCalls = 2
    /\ pc = "terms"
    /\ downloaded < tracks_per_term

\* C6: outside the with block no download of a page is queued or running
\* and every candidate of the page has a resolved future, so that a search
\* call, which is made outside it, never overlaps a download.
C6_Barrier ==
    OutsidePool =>
        /\ Len(futures) = results
        /\ \A i \in 1..Len(futures) : futures[i] \in {"ok", "fail"}

\* A page larger than the pool has drained with a failed download, and the
\* next search call is due.
C6_Witness ==
    /\ pc = "while"
    /\ Len(futures) > MAX_WORKERS
    /\ \E i \in 1..Len(futures) : futures[i] = "fail"
    /\ downloaded < tracks_per_term

\* C7: what a page adds to downloaded is the number of its downloads that
\* succeeded: of those gone through while the loop of lines 113-115 runs,
\* of the whole page once it has ended.
C7_PageCountsSuccesses ==
    /\ pc \in {"collect", "shutdown"} =>
          downloaded - lastSearch.before =
              Cardinality({i \in 1..collected : futures[i] = "ok"})
    /\ (pc = "shutdown" \/ (OutsidePool /\ results > 0)) =>
          downloaded - lastSearch.before = Cardinality(Succeeded)

\* The second page of a term, larger than the pool, has been gone through
\* with successes and failures.
C7_Witness ==
    /\ pc = "shutdown"
    /\ results > MAX_WORKERS
    /\ lastSearch.before > 0
    /\ Cardinality(Succeeded) \in 1..(results - 1)
    /\ futures[1] = "fail"

\* C8: tracks_per_term is the floor of count / len(search_terms), for every
\* term of the genre: tracks_per_term * len <= count < (tracks_per_term + 1)
\* * len, and 100 tracks over 3 terms give 33.
C8_QuotaIsFloor ==
    search_terms > 0 =>
        /\ tracks_per_term * search_terms <= count
        /\ count < (tracks_per_term + 1) * search_terms
        /\ (count = 100 /\ search_terms = 3) => tracks_per_term = 33

\* The third term of a genre of 100 tracks and 3 terms is processed.
C8_Witness ==
    /\ count = 100
    /\ search_terms = 3
    /\ termsLeft = 0
    /\ pc = "while"
    /\ tracks_per_term = 33

\* C9: a genre with no search term and a count > 0 fails alone: the run
\* does not stop on it with genres still to process.
C9_EmptyTermsFatalForCollectionOnly ==
    (error = "ZeroDivisionError" /\ count > 0 /\ pc \in {"done", "aborted"})
        => genresLeft = 0

\* C10: no download is started twice, and once the page is over every
\* candidate of it has had its download started exactly once, failed
\* downloads included.
C10_EachCandidateFetchedOnce ==
    /\ \A i \in 1..Len(attempts) : attempts[i] <= 1
    /\ (pc = "shutdown" \/ OutsidePool) =>
          /\ Len(attempts) = results
          /\ \A i \in 1..Len(attempts) : attempts[i] = 1

\* A page larger than the pool is over, its first download failed and all
\* the others succeeded.
C10_Witness ==
    /\ pc = "while"
    /\ results > MAX_WORKERS
    /\ futures[1] = "fail"
    /\ \A i \in 2..Len(futures) : futures[i] = "ok"

\* The main thread is processing a term (get_top_tracks.py:83-118).
InTerm == pc \in {"while", "submit", "collect", "shutdown"}

\* C11: when every search and download call returns and the source is
\* finite, the processing of every term ends, it ends with the quota met or
\* on an empty page, and the run ends.
C11_Termination ==
    /\ InTerm ~> (pc = "terms")
    /\ <>(pc \in {"done", "aborted"})
    /\ [][(InTerm /\ pc' = "terms") =>
            (downloaded' >= tracks_per_term
             \/ (searchCalls' > 0 /\ lastSearch'.size = 0))]_vars

\* The run has ended after a last term that ended under quota on an empty
\* second page.
C11_Witness ==
    /\ pc = "done"
    /\ searchCalls = 2
    /\ lastSearch.size = 0
    /\ downloaded < tracks_per_term

\* C12: terms and genres are processed one after another: a step that
\* starts a search, a term or a genre is taken with no download queued or
\* running, genres and terms are consumed in order, and the downloads
\* running at any instant of the run never exceed MAX_WORKERS.
C12_Sequential ==
    /\ [](Cardinality(Running) <= MAX_WORKERS)
    /\ [][(searchCalls' # searchCalls \/ termsLeft' # termsLeft
           \/ genresLeft' # genresLeft)
            => (\A i \in 1..Len(futures) : futures[i] \in {"ok", "fail"})]_vars
    /\ [][/\ genresLeft' \in {genresLeft, genresLeft - 1}
          /\ (genresLeft' = genresLeft =>
                termsLeft' \in {termsLeft, termsLeft - 1})
          /\ (genresLeft' # genresLeft => pc = "genres")
          /\ (termsLeft' # termsLeft /\ genresLeft' = genresLeft =>
                pc = "terms")]_vars

\* Downloads of the second term of a genre run together, after the first
\* term has ended.
C12_Witness ==
    /\ search_terms - termsLeft >= 2
    /\ Cardinality(Running) >= 2

\* C15: every search call asks for min(BATCH_SIZE, tracks_per_term -
\* downloaded) entries; with a quota of 50, after a first page of 50
\* candidates of which 10 failed, the second call is made at offset 50 for
\* 10 entries.
C15_RequestSize ==
    /\ searchCalls > 0 =>
          LET remaining == tracks_per_term - lastSearch.before
          IN lastSearch.limit =
                 IF remaining < BATCH_SIZE THEN remaining ELSE BATCH_SIZE
    /\ (tracks_per_term = 50 /\ searchCalls = 2 /\ lastSearch.before = 40) =>
          (lastSearch.offset = 50 /\ lastSearch.limit = 10)

\* The second search call of a term of quota 50 whose first page had 50
\* candidates, 10 of them failed.
C15_Witness ==
    /\ tracks_per_term = 50
    /\ searchCalls = 2
    /\ lastSearch.before = 40
    /\ lastSearch.earlier = 50
    /\ lastSearch.limit = 10
    /\ batch = 1

\* The page of the last search has been gone through and every download of
\* it failed.
AllFailedPage ==
    /\ pc = "while"
    /\ results > 0
    /\ Len(futures) = results
    /\ \A i \in 1..Len(futures) : futures[i] = "fail"

\* C16: a term that has ended under quota ended on an empty page, and after
\* a page whose downloads all failed the next search call of the term is
\* made, at the next offset.
C16_AllFailedPageContinues ==
    /\ []((pc \in {"terms", "genres", "done"} /\ searchCalls > 0
           /\ downloaded < tracks_per_term) => lastSearch.size = 0)
    /\ \A k \in 1..MaxBatches :
          (AllFailedPage /\ searchCalls = k)
              ~> (searchCalls = k + 1 /\ lastSearch.offset = k * BATCH_SIZE)

\* The second page of a term is dispatched after a first page that
\* downloaded nothing.
C16_Witness ==
    /\ pc = "submit"
    /\ searchCalls = 2
    /\ lastSearch.size > 0
    /\ downloaded = 0

\* C17: within a term every search call has a larger offset than the call
\* before it, and is made, like every change of batch, only once the page
\* of the call before it has been submitted, downloaded and gone through.
C17_OffsetsIncrease ==
    /\ [][(searchCalls' = searchCalls + 1 /\ searchCalls > 0) =>
            /\ lastSearch'.offset > lastSearch.offset
            /\ lastSearch.size > 0
            /\ collected = lastSearch.size
            /\ \A i \in 1..lastSearch.size : futures[i] \in {"ok", "fail"}]_vars
    /\ [][(batch' # batch /\ batch' # 0) =>
            /\ batch' = batch + 1
            /\ pc = "shutdown"
            /\ collected = results
            /\ \A i \in 1..results : futures[i] \in {"ok", "fail"}]_vars

\* The second search call of a term returned a page.
C17_Witness ==
    /\ searchCalls = 2
    /\ lastSearch.offset > 0
    /\ lastSearch.size > 0

\* C19: a genre whose quota per term is 0 makes no search call and starts
\* no download for any of its terms, fetches nothing and raises nothing.
C19_ZeroQuota ==
    (search_terms > 0 /\ tracks_per_term = 0) =>
        /\ searchCalls = 0
        /\ futures = <<>>
        /\ downloaded = 0
        /\ error = "none"
        /\ pc \in {"terms", "while", "genres", "done"}

\* A genre of 2 tracks and 3 terms has been processed to its end.
C19_Witness ==
    /\ pc = "genres"
    /\ search_terms = 3
    /\ count = 2
    /\ termsLeft = 0
    /\ tracks_per_term = 0

\* C18: no quota rollover. Within a genre tracks_per_term is the same for
\* every term whatever the earlier terms downloaded, and the genre's total
\* (earlier terms plus the current one) is at most the number of terms
\* started times tracks_per_term, hence at most count.
C18_NoRollover ==
    /\ [](search_terms > 0 =>
            /\ fetchedBefore + downloaded
                   <= (search_terms - termsLeft) * tracks_per_term
            /\ search_terms * tracks_per_term <= count)
    /\ [][pc # "genres" => tracks_per_term' = tracks_per_term]_vars
    /\ [][(pc = "terms" /\ pc' = "while") => downloaded' = 0]_vars

\* The first term of a two-term genre ended under its quota, and the second
\* term has downloaded its quota.
C18_Witness ==
    /\ pc = "terms"
    /\ search_terms = 2
    /\ termsLeft = 0
    /\ tracks_per_term > 0
    /\ fetchedBefore < tracks_per_term
    /\ downloaded = tracks_per_term

\* C13: no exception leaves search or download: when a statement of the
\* try block raises, search returns [] and download returns None.
C13_NoExceptionEscapes ==
    /\ ytPc # "escaped"
    /\ (ytRaised # "none" /\ ytPc = "returned") =>
          /\ ytOp = "search" => ytResult = <<>>
          /\ ytOp = "download" => ytResult = "None"

\* clean_filename has returned filename for title.
HasCleaned ==
    \/ ytOp = "clean_filename" /\ ytPc \in {"returned", "recleaned"}
    \/ ytOp = "download" /\ ytPc = "cleaned"

Count(s, ch) == Cardinality({i \in 1..Len(s) : s[i] = ch})

\* C14: the name clean_filename returns has at most MaxFilenameLen
\* characters, none of them an invalid path character or '&'.  Every '&'
\* of the title has become 'and': the titles hold no 'n', so each 'n' of
\* the name follows an 'a' and comes from an '&', and a name that was not
\* cut holds one per '&' of the title.
C14_CleanFilename ==
    HasCleaned =>
        /\ Len(filename) <= MaxFilenameLen
        /\ \A i \in 1..Len(filename) :
              /\ filename[i] \notin InvalidChars \cup {"&"}
              /\ filename[i] = "n" => (i > 1 /\ filename[i - 1] = "a")
        /\ Count(filename, "n") <= Count(title, "&")
        /\ Len(title) - Count(title, "/") + 2 * Count(title, "&")
               <= MaxFilenameLen
             => /\ Count(filename, "n") = Count(title, "&")
                /\ Count(filename, "a") = Count(title, "a") + Count(title, "&")

\* A title longer than the cut, starting with '&' and holding an invalid
\* character, has been cleaned into a name of MaxFilenameLen characters.
C14_Witness ==
    /\ ytOp = "clean_filename"
    /\ ytPc = "returned"
    /\ Len(title) > MaxFilenameLen
    /\ title[1] = "&"
    /\ Count(title, "/") > 0
    /\ Len(filename) = MaxFilenameLen
    /\ filename[2] = "n"

\* C20: clean_filename is idempotent: cleaning the name it returned gives
\* that name again.
C20_Idempotent == ytPc = "recleaned" => recleaned = filename

====
